---- MODULE Spec2Model ----
(***************************************************************************)
(* Microgrid EMS: the Battery (backend/battery_model.py), the stepwise    *)
(* strategies (backend/schedulers.py) and the simulation driver           *)
(* (backend/simulator.py).                                                 *)
(*                                                                         *)
(* Numbers.  The program computes with Python floats.  Here every real    *)
(* quantity (kWh, kW, efficiency, rate, percent, price, degrees) is the   *)
(* integer  value * Scale ; a product or quotient of two reals is rounded *)
(* toward zero to a multiple of 1/Scale (Mul, Div below), the way the     *)
(* float operation rounds its own result.  Sums, differences, min, max    *)
(* and comparisons are exact.                                              *)
(***************************************************************************)
EXTENDS Integers, Sequences, FiniteSets, TLC

VARIABLES
    battery,    \* the Battery object (all fields of battery_model.Battery)
    initial,    \* the Battery as constructed (history)
    prev,       \* the Battery as it was before the last charge/discharge call
    calls,      \* history: the charge/discharge calls made so far, with results
    pc,         \* "battery": free calls on a Battery; "run"/"done"/"error":
                \* run_simulation running, returned, raised
    inputs,     \* run_simulation arguments: solar, load, prices, sell_price, strategy
    t,          \* loop index of run_simulation (0-based hour)
    decisions,  \* history: what the strategy returned at each of its calls
    results,    \* the ledger being built: one row per hour
    columns,    \* the column names of the DataFrame run_simulation returns
    compared    \* compare_strategies: the ledgers stored so far, by strategy name

vars == <<battery, initial, prev, calls, pc, inputs, t, decisions, results,
          columns, compared>>

----------------------------------------------------------------------------
(* Fixed-point arithmetic                                                  *)

Scale == 10^6

\* v kWh (or any real v given as a ratio n/d) in fixed point
Real(n, d) == (n * Scale) \div d

Min2(a, b) == IF a <= b THEN a ELSE b
Max2(a, b) == IF a >= b THEN a ELSE b
Min3(a, b, c) == Min2(Min2(a, b), c)
Abs(a) == IF a < 0 THEN -a ELSE a

\* x * y on non-negative fixed-point reals, rounded down.  With
\* x = xh*Scale + x1*1000 + x0 and y likewise, every partial product fits 32 bits;
\* a whole factor multiplies exactly.
MulPos(x, y) ==
    IF y % Scale = 0 THEN x * (y \div Scale)
    ELSE IF x % Scale = 0 THEN (x \div Scale) * y
    ELSE LET xh == x \div Scale
             xl == x % Scale
             yh == y \div Scale
             yl == y % Scale
             x1 == xl \div 1000
             x0 == xl % 1000
             y1 == yl \div 1000
             y0 == yl % 1000
         IN  xh * yh * Scale + xh * yl + xl * yh + x1 * y1
               + (((x1 * y0 + x0 * y1) * 1000 + x0 * y0) \div Scale)

\* the first n decimal digits of r / y after the point, for 0 <= r < y
RECURSIVE Digits(_, _, _)
Digits(r, y, n) ==
    IF n = 0 THEN 0
    ELSE ((10 * r) \div y) * 10^(n - 1) + Digits((10 * r) % y, y, n - 1)

\* x / y on non-negative fixed-point reals (y > 0), rounded down: long division
DivPos(x, y) == (x \div y) * Scale + Digits(x % y, y, 6)

\* x * y and x / y on fixed-point reals, rounded toward zero
Mul(x, y) ==
    IF (x < 0) # (y < 0) THEN -MulPos(Abs(x), Abs(y)) ELSE MulPos(Abs(x), Abs(y))
Div(x, y) ==
    IF (x < 0) # (y < 0) THEN -DivPos(Abs(x), Abs(y)) ELSE DivPos(Abs(x), Abs(y))

----------------------------------------------------------------------------
(* Battery (battery_model.py)                                              *)

\* Battery.__init__
BatteryInit(capacity, soc, max_charge, max_discharge, efficiency, degradation_rate, temperature) ==
    [ original_capacity  |-> capacity,
      capacity           |-> capacity,
      soc                |-> soc,
      max_charge         |-> max_charge,
      max_discharge      |-> max_discharge,
      base_efficiency    |-> efficiency,
      efficiency         |-> efficiency,
      degradation_rate   |-> degradation_rate,
      total_throughput   |-> 0,
      cycles             |-> 0,
      state_of_health    |-> Real(100, 1),
      temperature        |-> temperature,
      optimal_temp       |-> Real(25, 1),
      charge_events      |-> 0,
      discharge_events   |-> 0,
      peak_power_reached |-> 0 ]

\* Battery.get_temperature_factor
get_temperature_factor(b) ==
    LET temp_diff == Abs(b.temperature - b.optimal_temp)
    IN  IF temp_diff < Real(10, 1) THEN Real(1, 1)
        ELSE IF temp_diff < Real(20, 1) THEN Real(98, 100)
        ELSE IF temp_diff < Real(30, 1) THEN Real(95, 100)
        ELSE Real(90, 100)

\* Battery.update_efficiency
update_efficiency(b) ==
    LET temp_factor == get_temperature_factor(b)
        soh_factor  == Div(b.state_of_health, Real(100, 1))
    IN  [b EXCEPT !.efficiency = Mul(Mul(b.base_efficiency, temp_factor), soh_factor)]

\* cycles * cycle_degradation_factor * original_capacity, with
\* cycle_degradation_factor = 0.2 / 3000 kept as the ratio 2 / 30000 and applied
\* last, so that the small factor does not eat the fixed-point digits
cycle_loss_of(cycles, original_capacity) ==
    LET x == Mul(cycles, original_capacity) * 2
    IN  IF x < 0 THEN -((-x) \div 30000) ELSE x \div 30000

\* update_degradation with a slip: the cycle term left out of the loss
update_degradation_throughput_only(b, energy_processed) ==
    LET total_throughput == b.total_throughput + energy_processed
        cycles           == Div(total_throughput, 2 * b.original_capacity)
        total_loss       == Mul(total_throughput, b.degradation_rate)
        capacity         == Max2(0, b.original_capacity - total_loss)
        state_of_health  == Mul(Div(capacity, b.original_capacity), Real(100, 1))
    IN  update_efficiency(
            [b EXCEPT !.total_throughput = total_throughput,
                      !.cycles           = cycles,
                      !.capacity         = capacity,
                      !.state_of_health  = state_of_health])

\* Battery.update_degradation
update_degradation(b, energy_processed) ==
    LET total_throughput == b.total_throughput + energy_processed
        cycles           == Div(total_throughput, 2 * b.original_capacity)
        throughput_loss  == Mul(total_throughput, b.degradation_rate)
        cycle_loss       == cycle_loss_of(cycles, b.original_capacity)
        total_loss       == throughput_loss + cycle_loss
        capacity         == Max2(0, b.original_capacity - total_loss)
        state_of_health  == Mul(Div(capacity, b.original_capacity), Real(100, 1))
    IN  update_efficiency(
            [b EXCEPT !.total_throughput = total_throughput,
                      !.cycles           = cycles,
                      !.capacity         = capacity,
                      !.state_of_health  = state_of_health])

\* charge with two slips, each in its own variant: the stored energy grows by
\* the accepted energy with no efficiency loss; the power rating is left out
charge_no_efficiency(b, energy) ==
    LET b1 == IF energy > 0
                THEN [b EXCEPT !.charge_events = b.charge_events + 1] ELSE b
        accepted_energy == Min3(energy, Min2(b1.max_charge, b1.capacity),
                                b1.capacity - b1.soc)
        b2 == IF accepted_energy > b1.peak_power_reached
                THEN [b1 EXCEPT !.peak_power_reached = accepted_energy] ELSE b1
        b3 == [b2 EXCEPT !.soc = Min2(b2.soc + accepted_energy, b2.capacity)]
    IN  <<update_degradation(b3, accepted_energy), accepted_energy>>

charge_no_power_rating(b, energy) ==
    LET b1 == IF energy > 0
                THEN [b EXCEPT !.charge_events = b.charge_events + 1] ELSE b
        accepted_energy == Min3(energy, b1.capacity, b1.capacity - b1.soc)
        b2 == IF accepted_energy > b1.peak_power_reached
                THEN [b1 EXCEPT !.peak_power_reached = accepted_energy] ELSE b1
        b3 == [b2 EXCEPT !.soc = Min2(b2.soc + Mul(accepted_energy, b2.efficiency),
                                      b2.capacity)]
    IN  <<update_degradation(b3, accepted_energy), accepted_energy>>

\* charge with a slip: the event is counted only when energy was accepted
charge_counts_accepted(b, energy) ==
    LET accepted_energy == Min3(energy, Min2(b.max_charge, b.capacity),
                                b.capacity - b.soc)
        b1 == IF accepted_energy > 0
                THEN [b EXCEPT !.charge_events = b.charge_events + 1] ELSE b
        b2 == IF accepted_energy > b1.peak_power_reached
                THEN [b1 EXCEPT !.peak_power_reached = accepted_energy] ELSE b1
        b3 == [b2 EXCEPT !.soc = Min2(b2.soc + Mul(accepted_energy, b2.efficiency),
                                      b2.capacity)]
    IN  <<update_degradation(b3, accepted_energy), accepted_energy>>

\* Battery.charge: <<battery after the call, returned accepted_energy>>
charge(b, energy) ==
    LET b1 == IF energy > 0
                THEN [b EXCEPT !.charge_events = b.charge_events + 1] ELSE b
        space_available  == b1.capacity - b1.soc
        c_rate_limit     == b1.capacity
        safe_charge_rate == Min2(b1.max_charge, c_rate_limit)
        accepted_energy  == Min3(energy, safe_charge_rate, space_available)
        b2 == IF accepted_energy > b1.peak_power_reached
                THEN [b1 EXCEPT !.peak_power_reached = accepted_energy] ELSE b1
        b3 == [b2 EXCEPT !.soc = Min2(b2.soc + Mul(accepted_energy, b2.efficiency),
                                      b2.capacity)]
    IN  <<update_degradation(b3, accepted_energy), accepted_energy>>

\* discharge with a slip: the efficiency factor applied on the discharge side too
discharge_with_efficiency(b, energy) ==
    LET b1 == IF energy > 0
                THEN [b EXCEPT !.discharge_events = b.discharge_events + 1] ELSE b
        supplied_energy == Min3(energy, Min2(b1.max_discharge, b1.capacity), b1.soc)
        b2 == IF supplied_energy > b1.peak_power_reached
                THEN [b1 EXCEPT !.peak_power_reached = supplied_energy] ELSE b1
        b3 == [b2 EXCEPT !.soc = b2.soc - Mul(supplied_energy, b2.efficiency)]
    IN  <<update_degradation(b3, supplied_energy), supplied_energy>>

\* Battery.discharge: <<battery after the call, returned supplied_energy>>
discharge(b, energy) ==
    LET b1 == IF energy > 0
                THEN [b EXCEPT !.discharge_events = b.discharge_events + 1] ELSE b
        c_rate_limit        == b1.capacity
        safe_discharge_rate == Min2(b1.max_discharge, c_rate_limit)
        supplied_energy     == Min3(energy, safe_discharge_rate, b1.soc)
        b2 == IF supplied_energy > b1.peak_power_reached
                THEN [b1 EXCEPT !.peak_power_reached = supplied_energy] ELSE b1
        b3 == [b2 EXCEPT !.soc = b2.soc - supplied_energy]
    IN  <<update_degradation(b3, supplied_energy), supplied_energy>>

----------------------------------------------------------------------------
(* Free use of one Battery: any sequence of charge / discharge calls       *)

MaxCalls == 3

\* constructor arguments the callers may pass (kWh, kW, ratios, degrees C)
Capacities    == {Real(10, 1), Real(4, 1)}
Efficiencies  == {Real(9, 10), Real(1, 1)}
DegRates      == {0, Real(5, 100000), Real(1, 1)}
Temperatures  == {Real(25, 1), Real(60, 1)}
PowerRating   == Real(5, 1)
InitialSocs(capacity) == {0, capacity}

\* requested energies: negative, zero, small, above the power rating, above all
Energies == {Real(-5, 1), 0, Real(1, 1), Real(6, 1), Real(10, 1)}

NoInputs == [solar |-> <<>>, load |-> <<>>, prices |-> <<>>,
             sell_price |-> 0, strategy |-> "none", mode |-> "none"]

InitBattery ==
    /\ \E capacity \in Capacities, efficiency \in Efficiencies,
          degradation_rate \in DegRates, temperature \in Temperatures :
         \E soc \in InitialSocs(capacity) :
            battery = BatteryInit(capacity, soc, PowerRating, PowerRating,
                                  efficiency, degradation_rate, temperature)
    /\ initial = battery
    /\ prev = battery
    /\ calls = <<>>
    /\ pc = "battery"
    /\ inputs = NoInputs
    /\ t = 0
    /\ decisions = <<>>
    /\ results = <<>>
    /\ columns = {}
    /\ compared = <<>>

Charge(energy) ==
    /\ pc = "battery"
    /\ Len(calls) < MaxCalls
    /\ LET r == charge(battery, energy)
       IN  /\ battery' = r[1]
           /\ calls' = Append(calls, [op |-> "charge", energy |-> energy, ret |-> r[2]])
    /\ prev' = battery
    /\ UNCHANGED <<initial, pc, inputs, t, decisions, results, columns, compared>>

Discharge(energy) ==
    /\ pc = "battery"
    /\ Len(calls) < MaxCalls
    /\ LET r == discharge(battery, energy)
       IN  /\ battery' = r[1]
           /\ calls' = Append(calls, [op |-> "discharge", energy |-> energy, ret |-> r[2]])
    /\ prev' = battery
    /\ UNCHANGED <<initial, pc, inputs, t, decisions, results, columns, compared>>

NextBattery ==
    \/ \E energy \in Energies : Charge(energy)
    \/ \E energy \in Energies : Discharge(energy)

BatterySpec == InitBattery /\ [][NextBattery]_vars

----------------------------------------------------------------------------
(* Stepwise strategies (schedulers.py)                                     *)

Decision(grid_buy, grid_sell, bat_charge, bat_discharge) ==
    [grid_buy |-> grid_buy, grid_sell |-> grid_sell,
     bat_charge |-> bat_charge, bat_discharge |-> bat_discharge]

\* naive_scheduler with a slip: a surplus is offered to the battery first
naive_charges_surplus(load, solar, b, prices, sell_price) ==
    LET net_load == load - solar
        to_battery == Min3(Abs(net_load), b.capacity - b.soc, b.max_charge)
    IN  IF net_load > 0 THEN Decision(net_load, 0, 0, 0)
        ELSE Decision(0, Abs(net_load) - to_battery, to_battery, 0)

\* naive_scheduler
naive_scheduler(load, solar, b, prices, sell_price) ==
    LET net_load == load - solar
    IN  IF net_load > 0 THEN Decision(net_load, 0, 0, 0)
        ELSE Decision(0, Abs(net_load), 0, 0)

\* the surplus branch shared by four schedulers: charge first, export the rest
charge_then_export(net_load, b) ==
    LET surplus       == Abs(net_load)
        battery_space == b.capacity - b.soc
        to_battery    == Min3(surplus, battery_space, b.max_charge)
        to_grid       == Max2(0, surplus - to_battery)
    IN  Decision(0, to_grid, to_battery, 0)

\* self_consumption_scheduler with a slip: the surplus is exported before the
\* battery is offered any of it
self_consumption_export_first(load, solar, b, prices, sell_price) ==
    LET net_load == load - solar
    IN  IF net_load > 0
          THEN LET from_battery == Min3(net_load, b.soc, b.max_discharge)
                   from_grid    == Max2(0, net_load - from_battery)
               IN  Decision(from_grid, 0, 0, from_battery)
          ELSE Decision(0, Abs(net_load), 0, 0)

\* self_consumption_scheduler
self_consumption_scheduler(load, solar, b, prices, sell_price) ==
    LET net_load == load - solar
    IN  IF net_load > 0
          THEN LET from_battery == Min3(net_load, b.soc, b.max_discharge)
                   from_grid    == Max2(0, net_load - from_battery)
               IN  Decision(from_grid, 0, 0, from_battery)
          ELSE charge_then_export(net_load, b)

\* default of peak_shaving_scheduler's peak_threshold parameter (kW)
peak_threshold == 5

\* peak_shaving_scheduler with a slip: the battery is asked for the whole net load
\* above the threshold, not for the part above it
peak_shaving_whole_load(load, solar, b, prices, sell_price) ==
    LET net_load  == load - solar
        threshold == Real(peak_threshold, 1)
    IN  IF net_load > threshold
          THEN LET battery_help == Min3(net_load, b.soc, b.max_discharge)
               IN  Decision(net_load - battery_help, 0, 0, battery_help)
        ELSE IF net_load > 0 THEN Decision(net_load, 0, 0, 0)
        ELSE charge_then_export(net_load, b)

\* peak_shaving_scheduler
peak_shaving_scheduler(load, solar, b, prices, sell_price) ==
    LET net_load  == load - solar
        threshold == Real(peak_threshold, 1)
    IN  IF net_load > threshold
          THEN LET battery_help == Min3(net_load - threshold, b.soc, b.max_discharge)
               IN  Decision(net_load - battery_help, 0, 0, battery_help)
        ELSE IF net_load > 0 THEN Decision(net_load, 0, 0, 0)
        ELSE charge_then_export(net_load, b)

peak_hours == {7, 8, 9, 17, 18, 19, 20}

\* time_of_use_scheduler
time_of_use_scheduler(load, solar, b, prices, sell_price, current_hour) ==
    LET net_load == load - solar
        is_peak  == current_hour \in peak_hours
    IN  IF is_peak
          THEN IF net_load > 0
                 THEN LET battery_help == Min3(net_load, b.soc, b.max_discharge)
                      IN  Decision(Max2(0, net_load - battery_help), 0, 0, battery_help)
                 ELSE Decision(0, Abs(net_load), 0, 0)
          ELSE IF net_load > 0 THEN Decision(net_load, 0, 0, 0)
               ELSE charge_then_export(net_load, b)

\* greedy_scheduler's price thresholds
high_price_threshold == 10
low_price_threshold == 4

\* greedy_scheduler with a slip: at a low price a zero net load is topped up too
greedy_tops_up_at_zero(load, solar, b, prices, sell_price) ==
    LET current_price == prices
        net_load      == load - solar
    IN  IF current_price > Real(high_price_threshold, 1)
          THEN IF net_load > 0
                 THEN LET battery_help == Min3(net_load, b.soc, b.max_discharge)
                      IN  Decision(Max2(0, net_load - battery_help), 0, 0, battery_help)
                 ELSE Decision(0, Abs(net_load), 0, 0)
        ELSE IF current_price < Real(low_price_threshold, 1)
          THEN IF net_load >= 0
                 THEN LET battery_space == b.capacity - b.soc
                          extra_buy     == Min2(battery_space, b.max_charge)
                      IN  Decision(net_load, 0, extra_buy, 0)
                 ELSE charge_then_export(net_load, b)
        ELSE self_consumption_scheduler(load, solar, b, prices, sell_price)

\* greedy_scheduler with a slip: the two thresholds belong to the outer bands
greedy_inclusive(load, solar, b, prices, sell_price) ==
    LET current_price == prices
        net_load      == load - solar
    IN  IF current_price >= Real(high_price_threshold, 1)
          THEN IF net_load > 0
                 THEN LET battery_help == Min3(net_load, b.soc, b.max_discharge)
                      IN  Decision(Max2(0, net_load - battery_help), 0, 0, battery_help)
                 ELSE Decision(0, Abs(net_load), 0, 0)
        ELSE IF current_price <= Real(low_price_threshold, 1)
          THEN IF net_load > 0
                 THEN LET battery_space == b.capacity - b.soc
                          extra_buy     == Min2(battery_space, b.max_charge)
                      IN  Decision(net_load, 0, extra_buy, 0)
                 ELSE charge_then_export(net_load, b)
        ELSE self_consumption_scheduler(load, solar, b, prices, sell_price)

\* greedy_scheduler (prices is the scalar price of the hour)
greedy_scheduler(load, solar, b, prices, sell_price) ==
    LET current_price == prices
        net_load      == load - solar
    IN  IF current_price > Real(high_price_threshold, 1)
          THEN IF net_load > 0
                 THEN LET battery_help == Min3(net_load, b.soc, b.max_discharge)
                      IN  Decision(Max2(0, net_load - battery_help), 0, 0, battery_help)
                 ELSE Decision(0, Abs(net_load), 0, 0)
        ELSE IF current_price < Real(low_price_threshold, 1)
          THEN IF net_load > 0
                 THEN LET battery_space == b.capacity - b.soc
                          extra_buy     == Min2(battery_space, b.max_charge)
                      IN  Decision(net_load, 0, extra_buy, 0)
                 ELSE charge_then_export(net_load, b)
        ELSE self_consumption_scheduler(load, solar, b, prices, sell_price)

\* A strategy_func supplied by the caller of run_simulation: any callable.  It
\* may request charge and discharge together, or more than the battery can take.
CustomDecisions ==
    { Decision(Real(4, 1), 0, Real(10, 1), Real(3, 1)),
      Decision(0, Real(7, 1), 0, Real(10, 1)),
      [grid_buy |-> Real(4, 1), grid_sell |-> 0, bat_charge |-> Real(2, 1)] }

\* the stepwise schedulers of STRATEGIES
RegistryStepStrategies ==
    {"naive", "self_consumption", "peak_shaving", "time_of_use", "greedy"}

StepStrategies == {"naive", "self_consumption", "peak_shaving", "time_of_use",
                   "greedy", "custom"}

\* run_simulation calls strategy_func(load[t], solar[t], battery, prices[t], sell_price):
\* the decisions strategy_func may return (one, for the schedulers of STRATEGIES;
\* time_of_use_scheduler's current_hour keeps its default 0)
strategy_func(name, load, solar, b, price, sell_price) ==
    CASE name = "naive" -> {naive_scheduler(load, solar, b, price, sell_price)}
      [] name = "self_consumption" ->
            {self_consumption_scheduler(load, solar, b, price, sell_price)}
      [] name = "peak_shaving" ->
            {peak_shaving_scheduler(load, solar, b, price, sell_price)}
      [] name = "time_of_use" ->
            {time_of_use_scheduler(load, solar, b, price, sell_price, 0)}
      [] name = "greedy" -> {greedy_scheduler(load, solar, b, price, sell_price)}
      [] name = "custom" -> CustomDecisions

----------------------------------------------------------------------------
(* linear_optimizer and mpc_optimizer (schedulers.py): one plan for the    *)
(* whole horizon, from a linear program handed to the CBC solver.          *)
(*                                                                         *)
(* The linear program is a minimum-cost flow (a bus node and a storage     *)
(* node per hour; grid, charge, discharge and carried-over soc are the     *)
(* arcs) whenever battery.efficiency is 1.  With efficiency 1 and solar,   *)
(* load, soc, capacity and power ratings in whole kWh, it is feasible iff  *)
(* it has a feasible point in whole kWh, and when it has an optimum it has *)
(* one in whole kWh.  The plans below are those points, so linear_optimizer*)
(* is modelled for such batteries and profiles only.                       *)

\* the whole kWh values of a variable with lowBound 0 and the given upBound
Levels(upBound) == {k * Scale : k \in 0..(upBound \div Scale)}

\* the battery variables of the horizon: <<bat_charge[t], bat_discharge[t]>> per hour
BatteryFlows(hours, b) ==
    [1..hours -> Levels(b.max_charge) \X Levels(b.max_discharge)]

RECURSIVE lp_soc(_, _, _)
\* SOC_Update_t: soc[t] == prev_soc + bat_charge[t] * battery.efficiency - bat_discharge[t]
lp_soc(flows, b, i) ==
    IF i = 0 THEN b.soc
    ELSE lp_soc(flows, b, i - 1) + Mul(flows[i][1], b.efficiency) - flows[i][2]

\* the bounds of the SOC variables
lp_feasible(flows, b) ==
    \A i \in DOMAIN flows :
       LET soc == lp_soc(flows, b, i) IN 0 <= soc /\ soc <= b.capacity

RECURSIVE SumTo(_, _)
\* s[1] + ... + s[i]
SumTo(s, i) == IF i = 0 THEN 0 ELSE SumTo(s, i - 1) + s[i]

\* the results dictionary of battery flows: Energy_Balance_t gives
\* grid_buy[t] - grid_sell[t], and a basic solution has one of the two at 0
lp_results(flows, load_profile, solar_profile, b, prices, sell_price) ==
    LET hours == Len(load_profile)
        grid(i)  == load_profile[i] - solar_profile[i] + flows[i][1] - flows[i][2]
        grid_buy  == [i \in 1..hours |-> Max2(grid(i), 0)]
        grid_sell == [i \in 1..hours |-> Max2(-grid(i), 0)]
    IN  [grid_buy      |-> grid_buy,
         grid_sell     |-> grid_sell,
         bat_charge    |-> [i \in 1..hours |-> flows[i][1]],
         bat_discharge |-> [i \in 1..hours |-> flows[i][2]],
         battery_soc   |-> [i \in 1..hours |-> lp_soc(flows, b, i)],
         cost          |-> [i \in 1..hours |->
                              Mul(grid_buy[i], prices[i]) - Mul(grid_sell[i], sell_price)]]

\* Total_Cost
lp_objective(flows, load_profile, solar_profile, prices, sell_price) ==
    LET grid(i) == load_profile[i] - solar_profile[i] + flows[i][1] - flows[i][2]
    IN  SumTo([i \in DOMAIN flows |->
                 Mul(Max2(grid(i), 0), prices[i]) - Mul(Max2(-grid(i), 0), sell_price)],
              Len(load_profile))

\* the status prob.solve leaves: the SOC bounds may exclude every plan, and
\* buying at a price below sell_price and selling it lowers the cost without limit
lp_status(load_profile, solar_profile, b, prices, sell_price) ==
    IF \A flows \in BatteryFlows(Len(load_profile), b) : ~lp_feasible(flows, b)
      THEN "Infeasible"
    ELSE IF \E i \in DOMAIN prices : prices[i] < sell_price
      THEN "Unbounded"
    ELSE "Optimal"

\* the values read back from a problem that was not solved: whatever the solver
\* left in each variable, or 0.0 ("pulp.value(x) or 0.0"); cost is computed from them
lp_unsolved(hours, b) ==
    { [grid_buy      |-> [i \in 1..hours |-> 0],
       grid_sell     |-> [i \in 1..hours |-> 0],
       bat_charge    |-> [i \in 1..hours |-> x],
       bat_discharge |-> [i \in 1..hours |-> 0],
       battery_soc   |-> [i \in 1..hours |-> y],
       cost          |-> [i \in 1..hours |-> 0]] :
      x \in {0, b.max_charge}, y \in {0, b.capacity} }

\* linear_optimizer(load_profile, solar_profile, battery, prices, sell_price): the
\* results it may return.  The status of the solve is never looked at.  A solved
\* problem gives one plan of least cost (the solver is deterministic).
linear_optimizer(load_profile, solar_profile, b, prices, sell_price) ==
    LET hours    == Len(load_profile)
        feasible == {flows \in BatteryFlows(hours, b) : lp_feasible(flows, b)}
        costs    == {lp_objective(flows, load_profile, solar_profile, prices, sell_price) :
                        flows \in feasible}
        least    == CHOOSE c \in costs : \A d \in costs : c <= d
        solution == CHOOSE flows \in feasible :
                        lp_objective(flows, load_profile, solar_profile, prices,
                                     sell_price) = least
    IN  IF lp_status(load_profile, solar_profile, b, prices, sell_price) = "Optimal"
          THEN {lp_results(solution, load_profile, solar_profile, b, prices, sell_price)}
          ELSE lp_unsolved(hours, b)

\* mpc_optimizer: a call of linear_optimizer
mpc_optimizer(load_profile, solar_profile, b, prices, sell_price) ==
    linear_optimizer(load_profile, solar_profile, b, prices, sell_price)

required_keys_step   == {"grid_buy", "grid_sell", "bat_charge", "bat_discharge"}
required_keys_global == {"grid_buy", "grid_sell", "bat_charge", "bat_discharge",
                         "battery_soc", "cost"}

\* A global strategy_func supplied by the caller: any callable.  Its plan need
\* not come from the profiles, and may lack required keys.
CustomPlans(hours) ==
    LET plan == [grid_buy      |-> [i \in 1..hours |-> Real(i, 1)],
                 grid_sell     |-> [i \in 1..hours |-> Real(2, 1)],
                 bat_charge    |-> [i \in 1..hours |-> Real(3, 1)],
                 bat_discharge |-> [i \in 1..hours |-> Real(4, 1)],
                 battery_soc   |-> [i \in 1..hours |-> Real(5, 1)],
                 cost          |-> [i \in 1..hours |-> Real(7 * i, 1)]]
    IN  {plan} \cup {[k \in required_keys_global \ {lacking} |-> plan[k]] :
                        lacking \in {"cost", "battery_soc"}}

GlobalStrategies == {"linear_optimizer", "mpc", "custom_plan"}

\* run_simulation calls strategy_func(load, solar, battery, prices, sell_price):
\* the results dictionaries strategy_func may return
global_strategy_func(name, load, solar, b, prices, sell_price) ==
    CASE name = "linear_optimizer" -> linear_optimizer(load, solar, b, prices, sell_price)
      [] name = "mpc" -> mpc_optimizer(load, solar, b, prices, sell_price)
      [] name = "custom_plan" -> CustomPlans(Len(load))

----------------------------------------------------------------------------
(* run_simulation (simulator.py)                                           *)

Hours == 2

Loads     == {0, Real(8, 1)}
Solars    == {0, Real(5, 1)}
Prices    == {Real(3, 1), Real(6, 1), Real(12, 1)}
SellPrice == Real(3, 1)

\* the batteries of the global runs: efficiency 1 and whole kWh; a Battery may be
\* constructed with a soc above its capacity (here above capacity + max_discharge)
GlobalBatteries ==
    { BatteryInit(Real(2, 1), soc, Real(1, 1), Real(1, 1), Real(1, 1),
                  Real(5, 100000), Real(25, 1)) : soc \in {0, Real(1, 1), Real(4, 1)} }

\* the feed-in tariffs of the global runs: the configured one, and one above a buy price
GlobalSellPrices == {SellPrice, Real(5, 1)}

\* the hours of the global runs: one without sun and with load, one with sun
\* and no load
GlobalHourKinds ==
    {[load |-> Real(8, 1), solar |-> 0], [load |-> 0, solar |-> Real(5, 1)]}

InitRun ==
    /\ \E hours \in 0..Hours :
         \E prices \in [1..hours -> Prices] :
            \/ /\ \E efficiency \in Efficiencies, soc \in {0, Real(5, 1)} :
                     battery = BatteryInit(Real(10, 1), soc, PowerRating, PowerRating,
                                           efficiency, Real(5, 100000), Real(25, 1))
               /\ \E solar \in [1..hours -> Solars], load \in [1..hours -> Loads],
                     strategy \in StepStrategies :
                     inputs = [solar |-> solar, load |-> load, prices |-> prices,
                               sell_price |-> SellPrice, strategy |-> strategy,
                               mode |-> "step"]
            \/ /\ hours > 0
               /\ battery \in GlobalBatteries
               /\ \E profile \in [1..hours -> GlobalHourKinds],
                     strategy \in GlobalStrategies, sell_price \in GlobalSellPrices :
                     inputs = [solar |-> [i \in 1..hours |-> profile[i].solar],
                               load |-> [i \in 1..hours |-> profile[i].load],
                               prices |-> prices, sell_price |-> sell_price,
                               strategy |-> strategy, mode |-> "global"]
    /\ initial = battery
    /\ prev = battery
    /\ calls = <<>>
    /\ pc = "run"
    /\ t = 0
    /\ decisions = <<>>
    /\ results = <<>>
    /\ columns = {}
    /\ compared = <<>>

\* the validation with a slip: a missing key is filled in from the keys present
checked_defaulting(returned, required_keys) ==
    [ok    |-> TRUE,
     value |-> [k \in required_keys \cup DOMAIN returned |->
                  IF k \in DOMAIN returned THEN returned[k]
                  ELSE returned[CHOOSE j \in DOMAIN returned : TRUE]]]

\* "for key in required_keys: if key not in ...: raise ValueError(...)"
checked(returned, required_keys) ==
    [ok |-> required_keys \subseteq DOMAIN returned, value |-> returned]

\* the battery actions of one hour with a slip: the ledger is given the amount
\* requested, not the amount the battery returned
execute_records_request(b, decision) ==
    IF decision.bat_charge > 0
      THEN LET r == charge(b, decision.bat_charge)
           IN  <<r[1], decision.bat_charge, 0,
                 <<[op |-> "charge", energy |-> decision.bat_charge, ret |-> r[2]]>> >>
    ELSE IF decision.bat_discharge > 0
      THEN LET r == discharge(b, decision.bat_discharge)
           IN  <<r[1], 0, decision.bat_discharge,
                 <<[op |-> "discharge", energy |-> decision.bat_discharge, ret |-> r[2]]>> >>
    ELSE <<b, 0, 0, <<>> >>

\* the battery actions of one hour with a slip: "if" in place of "elif", so a
\* decision that requests both gets both
execute_both(b, decision) ==
    LET c  == IF decision.bat_charge > 0
                THEN charge(b, decision.bat_charge) ELSE <<b, 0>>
        d  == IF decision.bat_discharge > 0
                THEN discharge(c[1], decision.bat_discharge) ELSE <<c[1], 0>>
        cc == IF decision.bat_charge > 0
                THEN <<[op |-> "charge", energy |-> decision.bat_charge, ret |-> c[2]]>>
                ELSE <<>>
        dc == IF decision.bat_discharge > 0
                THEN <<[op |-> "discharge", energy |-> decision.bat_discharge,
                        ret |-> d[2]]>>
                ELSE <<>>
    IN  <<d[1], c[2], d[2], cc \o dc>>

\* the battery actions of one hour: <<battery', actual_charge, actual_discharge, calls made>>
execute(b, decision) ==
    IF decision.bat_charge > 0
      THEN LET r == charge(b, decision.bat_charge)
           IN  <<r[1], r[2], 0,
                 <<[op |-> "charge", energy |-> decision.bat_charge, ret |-> r[2]]>> >>
    ELSE IF decision.bat_discharge > 0
      THEN LET r == discharge(b, decision.bat_discharge)
           IN  <<r[1], 0, r[2],
                 <<[op |-> "discharge", energy |-> decision.bat_discharge, ret |-> r[2]]>> >>
    ELSE <<b, 0, 0, <<>> >>

\* the cost of one hour with a slip: exports credited at the buy price
hour_cost_buy_price(decision, price, sell_price) ==
    Mul(decision.grid_buy, price) - Mul(decision.grid_sell, price)

\* the cost of one hour
hour_cost(decision, price, sell_price) ==
    Mul(decision.grid_buy, price) - Mul(decision.grid_sell, sell_price)

\* one iteration of the loop  for t in range(hours)  (t is 0-based, sequences 1-based)
Step ==
    /\ pc = "run"
    /\ inputs.mode = "step"
    /\ t < Len(inputs.solar)
    /\ LET load  == inputs.load[t + 1]
           solar == inputs.solar[t + 1]
           price == inputs.prices[t + 1]
       IN  \E returned \in strategy_func(inputs.strategy, load, solar, battery,
                                         price, inputs.sell_price) :
             LET v        == checked(returned, required_keys_step)
                 decision == v.value
                 x        == execute(battery, decision)
             IN  /\ decisions' = Append(decisions, returned)
                 /\ IF v.ok
                      THEN /\ battery' = x[1]
                           /\ prev' = battery
                           /\ calls' = calls \o x[4]
                           /\ results' = Append(results,
                                 [grid_buy      |-> decision.grid_buy,
                                  grid_sell     |-> decision.grid_sell,
                                  bat_charge    |-> x[2],
                                  bat_discharge |-> x[3],
                                  battery_soc   |-> x[1].soc,
                                  cost          |-> hour_cost(decision, price,
                                                              inputs.sell_price),
                                  solar         |-> solar,
                                  load          |-> load,
                                  net_load      |-> load - solar,
                                  price         |-> price])
                           /\ t' = t + 1
                           /\ pc' = pc
                      ELSE /\ pc' = "error"
                           /\ UNCHANGED <<battery, prev, calls, results, t>>
    /\ UNCHANGED <<initial, inputs, columns, compared>>

\* pd.DataFrame(results_dict) with a slip: the two battery columns exchanged
DataFrame_swapped(results_dict, hours) ==
    [i \in 1..hours |->
        [k \in DOMAIN results_dict |->
            CASE k = "bat_charge"    -> results_dict["bat_discharge"][i]
              [] k = "bat_discharge" -> results_dict["bat_charge"][i]
              [] OTHER               -> results_dict[k][i]]]

\* pd.DataFrame(results_dict): the rows of a dictionary of columns
DataFrame(results_dict, hours) ==
    [i \in 1..hours |-> [k \in DOMAIN results_dict |-> results_dict[k][i]]]

\* the columns of the stepwise results dictionary
step_columns == {"grid_buy", "grid_sell", "bat_charge", "bat_discharge", "battery_soc",
                 "cost", "solar", "load", "net_load", "price"}

\* the global branch: one call of the strategy, its plan taken as the ledger
Global ==
    /\ pc = "run"
    /\ inputs.mode = "global"
    /\ decisions = <<>>
    /\ \E results_dict \in global_strategy_func(inputs.strategy, inputs.load,
                              inputs.solar, battery, inputs.prices, inputs.sell_price) :
          LET v     == checked(results_dict, required_keys_global)
              hours == Len(inputs.solar)
              df    == DataFrame(v.value, hours)
              added == {"solar", "load", "net_load", "price"}
          IN  /\ decisions' = <<results_dict>>
              /\ IF v.ok
                   THEN /\ results' =
                             [i \in 1..hours |->
                                [k \in DOMAIN v.value \cup added |->
                                   CASE k = "solar"    -> inputs.solar[i]
                                     [] k = "load"     -> inputs.load[i]
                                     [] k = "net_load" -> inputs.load[i] - inputs.solar[i]
                                     [] k = "price"    -> inputs.prices[i]
                                     [] OTHER          -> df[i][k]]]
                        /\ columns' = DOMAIN v.value \cup added
                        /\ pc' = pc
                   ELSE /\ pc' = "error"
                        /\ UNCHANGED <<results, columns>>
    /\ UNCHANGED <<battery, initial, prev, calls, inputs, t, compared>>

\* Series.cumsum with a slip: the sum stops one row short
cumsum_exclusive(rows, col, i) == SumTo([j \in 1..Len(rows) |-> rows[j][col]], i - 1)

RECURSIVE cumsum(_, _, _)
\* the running sum of column col over rows 1..i
cumsum(rows, col, i) == IF i = 0 THEN 0 ELSE cumsum(rows, col, i - 1) + rows[i][col]

\* after the loop: the cumulative columns, and return df
Return ==
    /\ pc = "run"
    /\ \/ inputs.mode = "step" /\ t = Len(inputs.solar)
       \/ inputs.mode = "global" /\ decisions # <<>>
    /\ results' = [i \in 1..Len(results) |->
                     [k \in DOMAIN results[i] \cup
                            {"cumulative_cost", "cumulative_import", "cumulative_export"} |->
                        CASE k = "cumulative_cost"   -> cumsum(results, "cost", i)
                          [] k = "cumulative_import" -> cumsum(results, "grid_buy", i)
                          [] k = "cumulative_export" -> cumsum(results, "grid_sell", i)
                          [] OTHER -> results[i][k]]]
    /\ columns' = (IF inputs.mode = "step" THEN step_columns ELSE columns)
                      \cup {"cumulative_cost", "cumulative_import", "cumulative_export"}
    /\ pc' = "done"
    /\ UNCHANGED <<battery, initial, prev, calls, inputs, t, decisions, compared>>

Next ==
    \/ Step
    \/ Global
    \/ Return

Spec == InitRun /\ [][Next]_vars

----------------------------------------------------------------------------
(* run_multi_day_simulation (simulator.py), stepwise strategies            *)

MaxDays == 2

\* the 24 of  len(solar) // 24 ,  df.index // 24  and  df.index % 24
hours_per_day == 24

\* battery_config.get(key, default)
config_get(battery_config, key, default) ==
    IF key \in DOMAIN battery_config THEN battery_config[key] ELSE default

\* the Battery run_multi_day_simulation constructs
multi_day_battery(battery_config) ==
    BatteryInit(config_get(battery_config, "capacity", Real(135, 10)),
                config_get(battery_config, "initial_soc", 0),
                config_get(battery_config, "max_charge", Real(5, 1)),
                config_get(battery_config, "max_discharge", Real(5, 1)),
                config_get(battery_config, "efficiency", Real(95, 100)),
                Real(5, 100000),
                config_get(battery_config, "temperature", Real(25, 1)))

\* np.tile with a slip: np.repeat, every price repeated in place
tile_repeat(prices, days) ==
    [i \in 1..(Len(prices) * days) |-> prices[((i - 1) \div days) + 1]]

\* np.tile(prices, days)
tile(prices, days) ==
    [i \in 1..(Len(prices) * days) |-> prices[((i - 1) % Len(prices)) + 1]]

\* battery_config dictionaries: empty (all defaults), and a smaller battery half full
BatteryConfigs ==
    { <<>>,
      [capacity |-> Real(10, 1), initial_soc |-> Real(5, 1), efficiency |-> Real(9, 10)] }

\* one day of solar, load and prices, by hour of day 0..23 (index 1..24)
SolarDays ==
    { [i \in 1..hours_per_day |-> IF 10 <= i - 1 /\ i - 1 <= 15 THEN Real(3, 1) ELSE 0],
      [i \in 1..hours_per_day |-> 0] }
LoadDays ==
    { [i \in 1..hours_per_day |-> IF (i - 1) \in {7, 8, 18, 19, 20} THEN Real(2, 1)
                                  ELSE Real(1, 1)],
      [i \in 1..hours_per_day |-> IF (i - 1) \in {7, 12} THEN Real(2, 1) ELSE 0] }
PriceDays ==
    { [i \in 1..hours_per_day |-> IF i - 1 < 6 THEN Real(3, 1)
                                  ELSE IF (i - 1) \in peak_hours THEN Real(12, 1)
                                  ELSE Real(6, 1)],
      [i \in 1..hours_per_day |-> Real(i, 1)] }

\* the days of a profile one after the other
Concat(days) ==
    [i \in 1..(hours_per_day * Len(days)) |->
        days[((i - 1) \div hours_per_day) + 1][((i - 1) % hours_per_day) + 1]]

\* the call of run_multi_day_simulation, up to its call of run_simulation
InitMultiDay ==
    /\ \E battery_config \in BatteryConfigs : battery = multi_day_battery(battery_config)
    /\ initial = battery
    /\ prev = battery
    /\ calls = <<>>
    /\ pc = "run"
    /\ \E n \in 1..MaxDays :
         \E solar_days \in [1..n -> SolarDays], load_day \in LoadDays,
            prices \in PriceDays, strategy \in RegistryStepStrategies :
            LET solar == Concat(solar_days)
                load  == Concat([d \in 1..n |-> load_day])
                days  == Len(solar) \div hours_per_day
            IN  inputs = [solar |-> solar, load |-> load,
                          prices |-> tile(prices, days), sell_price |-> SellPrice,
                          strategy |-> strategy, mode |-> "step",
                          daily_prices |-> prices]
    /\ t = 0
    /\ decisions = <<>>
    /\ results = <<>>
    /\ columns = {}
    /\ compared = <<>>

\* after run_simulation has returned: the day and hour_of_day columns
Annotate ==
    /\ pc = "done"
    /\ results' = [i \in 1..Len(results) |->
                     [k \in DOMAIN results[i] \cup {"day", "hour_of_day"} |->
                        CASE k = "day"         -> (i - 1) \div hours_per_day
                          [] k = "hour_of_day" -> (i - 1) % hours_per_day
                          [] OTHER             -> results[i][k]]]
    /\ columns' = columns \cup {"day", "hour_of_day"}
    /\ pc' = "annotated"
    /\ UNCHANGED <<battery, initial, prev, calls, inputs, t, decisions, compared>>

NextMultiDay ==
    \/ Step
    \/ Return
    \/ Annotate

MultiDaySpec == InitMultiDay /\ [][NextMultiDay]_vars

----------------------------------------------------------------------------
(* compare_strategies (simulator.py) on strategies of the registry         *)

\* the names of STRATEGIES
RegistryStrategies == RegistryStepStrategies \cup {"linear_optimizer", "mpc"}

\* the strategies dictionaries, as the names in their order, each name with its
\* scheduler: every one of one entry and every one of two entries
StrategyDicts ==
    {<<name>> : name \in RegistryStrategies}
      \cup {names \in {<<first, second>> : first, second \in RegistryStrategies} :
               names[1] # names[2]}

\* battery_config: whole kWh and efficiency 1, as linear_optimizer is modelled for
CompareConfigs ==
    { [capacity |-> Real(2, 1), initial_soc |-> soc, max_charge |-> Real(1, 1),
       max_discharge |-> Real(1, 1), efficiency |-> Real(1, 1)] : soc \in {0, Real(1, 1)} }

\* buy prices not below the feed-in tariff
ComparePrices == {Real(3, 1), Real(12, 1)}

\* the battery of a strategy with a slip: constructed once, before the loop
compare_battery_shared(battery_config) ==
    IF DOMAIN compared = {}
      THEN BatteryInit(config_get(battery_config, "capacity", Real(135, 10)),
                       config_get(battery_config, "initial_soc", 0),
                       config_get(battery_config, "max_charge", Real(5, 1)),
                       config_get(battery_config, "max_discharge", Real(5, 1)),
                       config_get(battery_config, "efficiency", Real(95, 100)),
                       Real(5, 100000), Real(25, 1))
      ELSE battery

\* the Battery compare_strategies constructs for a strategy
compare_battery(battery_config) ==
    BatteryInit(config_get(battery_config, "capacity", Real(135, 10)),
                config_get(battery_config, "initial_soc", 0),
                config_get(battery_config, "max_charge", Real(5, 1)),
                config_get(battery_config, "max_discharge", Real(5, 1)),
                config_get(battery_config, "efficiency", Real(95, 100)),
                Real(5, 100000), Real(25, 1))

\* mode = "global" if name in ["linear_optimizer", "mpc"] else "step"
compare_mode(name) == IF name \in {"linear_optimizer", "mpc"} THEN "global" ELSE "step"

\* the call of compare_strategies: results = {}, no Battery yet
InitCompare ==
    /\ battery = <<>>
    /\ initial = <<>>
    /\ prev = <<>>
    /\ calls = <<>>
    /\ pc = "compare"
    /\ \E profile \in [1..Hours -> GlobalHourKinds],
          prices \in [1..Hours -> ComparePrices], strategies \in StrategyDicts,
          battery_config \in CompareConfigs :
         inputs = [solar |-> [i \in 1..Hours |-> profile[i].solar],
                   load |-> [i \in 1..Hours |-> profile[i].load], prices |-> prices,
                   sell_price |-> SellPrice, strategy |-> "none", mode |-> "none",
                   strategies |-> strategies, battery_config |-> battery_config]
    /\ t = 0
    /\ decisions = <<>>
    /\ results = <<>>
    /\ columns = {}
    /\ compared = <<>>

\* the next entry of strategies.items(): a Battery, the mode, the call of run_simulation
CompareBegin ==
    /\ pc = "compare"
    /\ Cardinality(DOMAIN compared) < Len(inputs.strategies)
    /\ LET name == inputs.strategies[Cardinality(DOMAIN compared) + 1]
           b    == compare_battery(inputs.battery_config)
       IN  /\ battery' = b
           /\ initial' = b
           /\ prev' = b
           /\ inputs' = [inputs EXCEPT !.strategy = name, !.mode = compare_mode(name)]
    /\ calls' = <<>>
    /\ t' = 0
    /\ decisions' = <<>>
    /\ results' = <<>>
    /\ columns' = {}
    /\ pc' = "run"
    /\ UNCHANGED compared

\* results[name] = df
CompareStore ==
    /\ pc = "done"
    /\ compared' = [n \in DOMAIN compared \cup {inputs.strategy} |->
                      IF n = inputs.strategy THEN results ELSE compared[n]]
    /\ pc' = "compare"
    /\ UNCHANGED <<battery, initial, prev, calls, inputs, t, decisions, results, columns>>

\* return results
CompareReturn ==
    /\ pc = "compare"
    /\ Cardinality(DOMAIN compared) = Len(inputs.strategies)
    /\ pc' = "compared"
    /\ UNCHANGED <<battery, initial, prev, calls, inputs, t, decisions, results, columns,
                   compared>>

NextCompare ==
    \/ CompareBegin
    \/ Step
    \/ Global
    \/ Return
    \/ CompareStore
    \/ CompareReturn

CompareSpec == InitCompare /\ [][NextCompare]_vars

----------------------------------------------------------------------------
(* A scheduler of the registry called on its own, for one hour             *)

DecideLoads  == {0, Real(2, 1), Real(8, 1)}
DecidePrices == {Real(3, 1), Real(4, 1), Real(6, 1), Real(10, 1), Real(12, 1)}

\* batteries as constructed, and after a first charge (degraded, efficiency updated)
DecideBatteries ==
    LET constructed ==
          UNION { { BatteryInit(capacity, soc, PowerRating, PowerRating, efficiency,
                                Real(5, 100000), Real(25, 1)) :
                      soc \in {0, Real(3, 1), capacity} } :
                  capacity \in Capacities, efficiency \in Efficiencies }
    IN  constructed \cup {charge(b, Real(6, 1))[1] : b \in constructed}

InitDecide ==
    /\ battery \in DecideBatteries
    /\ initial = battery
    /\ prev = battery
    /\ calls = <<>>
    /\ pc = "decide"
    /\ \E solar \in Solars, load \in DecideLoads, price \in DecidePrices,
          strategy \in RegistryStepStrategies :
         inputs = [solar |-> <<solar>>, load |-> <<load>>, prices |-> <<price>>,
                   sell_price |-> SellPrice, strategy |-> strategy, mode |-> "call"]
    /\ t = 0
    /\ decisions = <<>>
    /\ results = <<>>
    /\ columns = {}
    /\ compared = <<>>

\* scheduler(load, solar, battery, price, sell_price)
Decide ==
    /\ pc = "decide"
    /\ \E decision \in strategy_func(inputs.strategy, inputs.load[1], inputs.solar[1],
                                      battery, inputs.prices[1], inputs.sell_price) :
          decisions' = <<decision>>
    /\ pc' = "decided"
    /\ UNCHANGED <<battery, initial, prev, calls, inputs, t, results, columns, compared>>

NextDecide == Decide

DecideSpec == InitDecide /\ [][NextDecide]_vars

----------------------------------------------------------------------------
(* Properties of the Battery, checked under BatterySpec                    *)

LastCall == calls[Len(calls)]
Called(op) == pc = "battery" /\ calls # <<>> /\ LastCall.op = op

\* C1: with every requested energy non-negative, 0 <= soc <= capacity holds
\* before and after every call (capacity being the current, degraded one).
C1_SocWithinCapacity ==
    (pc = "battery" /\ \A i \in 1..Len(calls) : calls[i].energy >= 0)
        => (0 <= battery.soc /\ battery.soc <= battery.capacity)

\* C3: over calls that all request positive energy, neither capacity nor
\* state_of_health increases from one call to the next.
C3_CapacityNonIncreasing ==
    (pc = "battery" /\ calls # <<>> /\ \A i \in 1..Len(calls) : calls[i].energy > 0)
        => (/\ battery.capacity <= prev.capacity
            /\ battery.state_of_health <= prev.state_of_health)

\* C4: whatever the requested energy, the returned amount r is feasible for the
\* pre-call battery (0 <= r <= min(power rating, headroom or stored energy)) and
\* the battery is left neither overdrawn nor overcharged.
C4_AlwaysClamped ==
    (pc = "battery" /\ calls # <<>>) =>
        /\ 0 <= LastCall.ret
        /\ LastCall.op = "charge" =>
              LastCall.ret <= Min2(prev.max_charge, prev.capacity - prev.soc)
        /\ LastCall.op = "discharge" =>
              LastCall.ret <= Min2(prev.max_discharge, prev.soc)
        /\ 0 <= battery.soc
        /\ battery.soc <= battery.capacity

\* C5: charge(e) returns min(e, 1.0 x capacity, max_charge, capacity - soc) of the
\* pre-call battery and sets soc to min(soc + accepted x efficiency, capacity), with
\* the efficiency and capacity in force before this call's degradation update.
C5_ChargeReference ==
    Called("charge") =>
        LET accepted == Min2(Min2(LastCall.energy, prev.capacity),
                             Min2(prev.max_charge, prev.capacity - prev.soc))
        IN  /\ LastCall.ret = accepted
            /\ battery.soc = Min2(prev.soc + Mul(accepted, prev.efficiency),
                                  prev.capacity)

\* a charge that the request, the power rating and the headroom each limit somewhere
C5_Witness ==
    /\ Called("charge")
    /\ LastCall.ret > 0
    /\ LastCall.ret < LastCall.energy
    /\ LastCall.ret = prev.max_charge
    /\ prev.efficiency < Scale
    /\ prev.capacity < prev.original_capacity
    /\ battery.soc < prev.capacity

\* C6: discharge(e) returns min(e, 1.0 x capacity, max_discharge, soc) of the
\* pre-call battery, and soc decreases by exactly that amount (no efficiency factor).
C6_DischargeReference ==
    Called("discharge") =>
        LET supplied == Min2(Min2(LastCall.energy, prev.capacity),
                             Min2(prev.max_discharge, prev.soc))
        IN  /\ LastCall.ret = supplied
            /\ battery.soc = prev.soc - supplied

\* a discharge of a battery whose efficiency is below 1 that supplies energy
C6_Witness ==
    /\ Called("discharge")
    /\ LastCall.ret > 0
    /\ LastCall.ret < LastCall.energy
    /\ prev.efficiency < Scale
    /\ prev.efficiency > 0

\* the fields of a Battery other than the two event counters
NoCounters(b) == [b EXCEPT !.charge_events = 0, !.discharge_events = 0]

\* C7: charge(0) and discharge(0) return 0 and leave every field but the event
\* counters unchanged, from any Battery state (a freshly constructed one included).
C7_ZeroIsIdempotent ==
    (pc = "battery" /\ calls # <<>> /\ LastCall.energy = 0) =>
        /\ LastCall.ret = 0
        /\ NoCounters(battery) = NoCounters(prev)

\* the Battery of the scenario: capacity 10, soc 0, power 5 / 5, efficiency 0.9,
\* degradation_rate 0 (temperature at the constructor's default)
Scenario ==
    /\ pc = "battery"
    /\ initial = BatteryInit(Real(10, 1), 0, Real(5, 1), Real(5, 1),
                             Real(9, 10), 0, Real(25, 1))
ScenarioCharge == [op |-> "charge", energy |-> Real(6, 1)]
ScenarioDischarge == [op |-> "discharge", energy |-> Real(10, 1)]
Asked(i) == [op |-> calls[i].op, energy |-> calls[i].energy]

\* C8 as stated: on the scenario battery charge(6) accepts 6 and soc becomes 5.4;
\* a following discharge(10) supplies 5.4 and soc becomes 0.
C8_ScenarioAsStated ==
    /\ (Scenario /\ Len(calls) = 1 /\ Asked(1) = ScenarioCharge)
          => (calls[1].ret = Real(6, 1) /\ battery.soc = Real(54, 10))
    /\ (Scenario /\ Len(calls) = 2 /\ Asked(1) = ScenarioCharge
                 /\ Asked(2) = ScenarioDischarge)
          => (calls[2].ret = Real(54, 10) /\ battery.soc = 0)

\* C8 amended: on the scenario battery charge(6) accepts 5 (the power rating
\* max_charge = 5 limits it) and soc becomes 4.5; a following discharge(10)
\* supplies 4.5 and soc becomes 0.
C8_ScenarioAmended ==
    /\ (Scenario /\ Len(calls) = 1 /\ Asked(1) = ScenarioCharge)
          => (calls[1].ret = Real(5, 1) /\ battery.soc = Real(45, 10))
    /\ (Scenario /\ Len(calls) = 2 /\ Asked(1) = ScenarioCharge
                 /\ Asked(2) = ScenarioDischarge)
          => (calls[2].ret = Real(45, 10) /\ battery.soc = 0)

\* the scenario played to its end
C8_Witness ==
    /\ Scenario
    /\ Len(calls) = 2
    /\ Asked(1) = ScenarioCharge
    /\ Asked(2) = ScenarioDischarge

----------------------------------------------------------------------------
(* Properties of a stepwise run, checked under Spec                        *)

\* SIMULATION_CONFIG["energy_balance_tolerance"] = 0.01 kWh
energy_balance_tolerance == Real(1, 100)

\* check_energy_balance on one ledger row
Balanced(row) ==
    Abs((row.solar + row.grid_buy + row.bat_discharge)
          - (row.load + row.grid_sell + row.bat_charge))
        <= energy_balance_tolerance

\* C2: every hour of the ledger of a stepwise run of naive, self_consumption,
\* peak_shaving, time_of_use or greedy conserves energy within 0.01:
\* solar + grid_buy + bat_discharge = load + grid_sell + bat_charge.
C2_EnergyConserved ==
    (pc \in {"run", "done"} /\ inputs.strategy \in RegistryStepStrategies)
        => \A i \in 1..Len(results) : Balanced(results[i])

\* the hours so far in which the driver calls the battery
RECURSIVE BatteryHours(_)
BatteryHours(ds) ==
    IF ds = <<>> THEN 0
    ELSE BatteryHours(SubSeq(ds, 1, Len(ds) - 1))
           + (IF ds[Len(ds)].bat_charge > 0 \/ ds[Len(ds)].bat_discharge > 0
                THEN 1 ELSE 0)

InRun == pc \in {"run", "done"} /\ inputs.mode = "step"

\* C9: in every hour of a stepwise run at most one Battery operation is executed:
\* charge when the decision's bat_charge > 0, otherwise discharge when its
\* bat_discharge > 0; when both are > 0 only charge is executed, the ledger's
\* bat_discharge of the hour is 0 and the discharge counter does not change.
C9_OneOperationPerHour ==
    (InRun /\ t > 0) =>
        LET d == decisions[t]
        IN  /\ Len(calls) = BatteryHours(decisions)
            /\ d.bat_charge > 0 =>
                  /\ LastCall.op = "charge"
                  /\ LastCall.energy = d.bat_charge
                  /\ results[t].bat_discharge = 0
                  /\ battery.discharge_events = prev.discharge_events
                  /\ battery.charge_events = prev.charge_events + 1
            /\ (d.bat_charge <= 0 /\ d.bat_discharge > 0) =>
                  /\ LastCall.op = "discharge"
                  /\ LastCall.energy = d.bat_discharge
                  /\ results[t].bat_charge = 0
                  /\ battery.charge_events = prev.charge_events
                  /\ battery.discharge_events = prev.discharge_events + 1
            /\ (d.bat_charge <= 0 /\ d.bat_discharge <= 0) =>
                  /\ battery = prev
                  /\ results[t].bat_charge = 0
                  /\ results[t].bat_discharge = 0

\* an hour whose decision requests charge and discharge together, with energy
\* stored that the discharge could have taken
C9_Witness ==
    /\ InRun
    /\ t > 0
    /\ decisions[t].bat_charge > 0
    /\ decisions[t].bat_discharge > 0
    /\ prev.soc > 0
    /\ results[t].bat_charge > 0

\* C10: in stepwise mode the ledger's grid_buy and grid_sell of every hour are the
\* strategy's requested values and cost = grid_buy x price - grid_sell x sell_price;
\* bat_charge / bat_discharge are the amounts the battery returned and battery_soc
\* is the battery's soc after the hour's operation.
C10_LedgerRow ==
    InRun =>
        /\ Len(results) = t
        /\ Len(decisions) = t
        /\ \A i \in 1..t :
              /\ results[i].grid_buy = decisions[i].grid_buy
              /\ results[i].grid_sell = decisions[i].grid_sell
              /\ results[i].cost =
                    Mul(decisions[i].grid_buy, inputs.prices[i])
                      - Mul(decisions[i].grid_sell, inputs.sell_price)
        /\ t > 0 =>
              /\ results[t].battery_soc = battery.soc
              /\ results[t].bat_charge =
                    IF decisions[t].bat_charge > 0 THEN LastCall.ret ELSE 0
              /\ results[t].bat_discharge =
                    IF decisions[t].bat_charge <= 0 /\ decisions[t].bat_discharge > 0
                      THEN LastCall.ret ELSE 0

\* an hour in which the battery accepted less than requested while the grid
\* values were recorded, and paid for, as requested
C10_Witness ==
    /\ InRun
    /\ t > 0
    /\ decisions[t].bat_charge > 0
    /\ results[t].bat_charge < decisions[t].bat_charge
    /\ results[t].grid_buy > 0
    /\ results[t].cost > 0

----------------------------------------------------------------------------
(* Properties of run_simulation in both modes, checked under Spec          *)

IsGlobal == inputs.mode = "global"
IsStep   == inputs.mode = "step"

\* C11: a stepwise decision lacking one of grid_buy, grid_sell, bat_charge,
\* bat_discharge, or a global plan lacking one of these, battery_soc or cost, makes
\* run_simulation raise and return no ledger, and the missing field is never filled
\* in; in stepwise mode the run raises before any Battery operation of that hour,
\* so the Battery keeps the state the preceding hours left.
C11_ContractViolation ==
    /\ [](pc \in {"run", "done"} =>
            \A i \in 1..Len(decisions) :
               IF IsStep THEN required_keys_step \subseteq DOMAIN decisions[i]
                         ELSE required_keys_global \subseteq DOMAIN decisions[i])
    /\ [](pc = "error" =>
            /\ columns = {}
            /\ IsStep => /\ Len(decisions) = t + 1
                         /\ ~(required_keys_step \subseteq DOMAIN decisions[t + 1])
                         /\ Len(results) = t
                         /\ t > 0 => results[t].battery_soc = battery.soc
                         /\ t = 0 => battery = initial
            /\ IsGlobal => /\ ~(required_keys_global \subseteq DOMAIN decisions[1])
                           /\ results = <<>>
                           /\ battery = initial)
    /\ [][pc' = "error" => (battery' = battery /\ calls' = calls /\ results' = results)]_vars
    /\ [][pc = "error" => UNCHANGED vars]_vars

\* a stepwise run that raised at a later hour, after hours that used the battery
C11_Witness ==
    /\ pc = "error"
    /\ IsStep
    /\ t > 0
    /\ calls # <<>>
    /\ battery # initial

\* C12: in global mode the strategy is called once, with the whole horizon; the six
\* series of the ledger are those of the returned plan, value for value; and the
\* Battery is left as it was before the run (soc, capacity, state_of_health,
\* throughput, efficiency, event counters).
C12_GlobalFrame ==
    IsGlobal =>
        /\ battery = initial
        /\ calls = <<>>
        /\ Len(decisions) <= 1
        /\ pc = "done" =>
              /\ Len(decisions) = 1
              /\ Len(results) = Len(inputs.solar)
              /\ \A k \in required_keys_global :
                    /\ Len(decisions[1][k]) = Len(inputs.solar)
                    /\ \A i \in 1..Len(results) : results[i][k] = decisions[1][k][i]

\* a returned plan of linear_optimizer that charges and later discharges, so that
\* the soc of the ledger moves while the Battery's does not
C12_Witness ==
    /\ IsGlobal
    /\ pc = "done"
    /\ inputs.strategy = "linear_optimizer"
    /\ \E i, j \in 1..Len(results) :
          /\ results[i].bat_charge > 0
          /\ results[j].bat_discharge > results[j].bat_charge
          /\ results[i].battery_soc # battery.soc

\* C13: in both modes, at every hour of the returned ledger cumulative_cost,
\* cumulative_import and cumulative_export are the sums of cost, grid_buy and
\* grid_sell over the hours up to and including that hour.
C13_CumulativeColumns ==
    pc = "done" =>
        \A i \in 1..Len(results) :
           LET before(col) == IF i = 1 THEN 0 ELSE results[i - 1][col]
           IN  /\ results[i].cumulative_cost
                     = before("cumulative_cost") + results[i].cost
               /\ results[i].cumulative_import
                     = before("cumulative_import") + results[i].grid_buy
               /\ results[i].cumulative_export
                     = before("cumulative_export") + results[i].grid_sell

\* a returned ledger of two or more hours with imports and exports to add up
C13_Witness ==
    /\ pc = "done"
    /\ Len(results) >= 2
    /\ results[1].grid_buy > 0
    /\ results[2].grid_buy > 0
    /\ results[1].grid_sell > 0
    /\ results[2].cumulative_cost # results[2].cost

\* C17: when the linear program of linear_optimizer has no optimal solution
\* (infeasible or unbounded), the global run ends with an error and returns no
\* ledger.
C17_UnsolvedIsAnError ==
    ( /\ IsGlobal
      /\ inputs.strategy \in {"linear_optimizer", "mpc"}
      /\ lp_status(inputs.load, inputs.solar, initial, inputs.prices,
                   inputs.sell_price) # "Optimal" )
        => pc # "done"

\* C18: a zero-length horizon gives a returned ledger with no rows and all columns,
\* the cumulative ones included; all-zero solar and load give, for every stepwise
\* strategy of the registry, rows whose grid_buy, grid_sell, bat_charge,
\* bat_discharge and cost are 0, with the battery as it was constructed.
C18_DegenerateInputs ==
    IsStep =>
        /\ Len(inputs.solar) = 0 =>
              /\ pc \in {"run", "done"}
              /\ results = <<>>
              /\ pc = "done" =>
                    columns = step_columns \cup {"cumulative_cost", "cumulative_import",
                                                 "cumulative_export"}
        /\ ( /\ inputs.strategy \in RegistryStepStrategies
             /\ \A i \in 1..Len(inputs.solar) :
                   inputs.solar[i] = 0 /\ inputs.load[i] = 0 ) =>
              /\ pc \in {"run", "done"}
              /\ battery = initial
              /\ \A i \in 1..Len(results) :
                    /\ results[i].grid_buy = 0
                    /\ results[i].grid_sell = 0
                    /\ results[i].bat_charge = 0
                    /\ results[i].bat_discharge = 0
                    /\ results[i].cost = 0
                    /\ results[i].battery_soc = initial.soc

\* the ledger of a zero-length horizon, returned
C18_Witness ==
    /\ IsStep
    /\ Len(inputs.solar) = 0
    /\ pc = "done"
    /\ results = <<>>
    /\ "cumulative_cost" \in columns

----------------------------------------------------------------------------
(* Properties of the schedulers, checked under DecideSpec                  *)

Decided(strategy) == pc = "decided" /\ inputs.strategy = strategy

----------------------------------------------------------------------------
(* Properties of run_multi_day_simulation, checked under MultiDaySpec      *)

\* the hour of day of row i of the ledger (rows are numbered from 1)
HourOfDay(i) == (i - 1) % 24
DayOf(i)     == (i - 1) \div 24

\* C15: run_multi_day_simulation uses one Battery for the whole horizon (an hour
\* starts from the soc the hour before left, across midnight too, and the event
\* counters run on over all the calls made), the price of row t is
\* prices[t mod 24], every hour of the profile gets a row, and row t carries
\* day = t div 24 and hour_of_day = t mod 24.
C15_MultiDay ==
    /\ \A i \in 1..Len(results) :
          results[i].price = inputs.daily_prices[HourOfDay(i) + 1]
    /\ t >= 2 => prev.soc = results[t - 1].battery_soc
    /\ battery.charge_events
          = Cardinality({i \in 1..Len(calls) : calls[i].op = "charge"})
    /\ battery.discharge_events
          = Cardinality({i \in 1..Len(calls) : calls[i].op = "discharge"})
    /\ pc \in {"done", "annotated"} => Len(results) = Len(inputs.solar)
    /\ pc = "annotated" =>
          \A i \in 1..Len(results) :
             /\ results[i].day = DayOf(i)
             /\ results[i].hour_of_day = HourOfDay(i)

\* a two-day ledger whose second day starts from a battery the first day filled
C15_Witness ==
    /\ pc = "annotated"
    /\ Len(results) = 48
    /\ results[25].day = 1
    /\ results[25].hour_of_day = 0
    /\ results[24].battery_soc > initial.soc
    /\ results[25].battery_soc < results[24].battery_soc
    /\ results[25].price # results[24].price

\* C19: in a stepwise run of time_of_use, at an hour of day in {7,8,9,17,18,19,20}
\* a deficit is met by discharging min(net_load, soc, max_discharge) and importing
\* the rest, and a surplus is exported whole with no charge; at any other hour a
\* deficit is imported in full with no discharge, and a surplus charges the battery
\* first and exports the rest.
C19_TimeOfUseByHour ==
    (inputs.strategy = "time_of_use" /\ pc = "run" /\ t > 0) =>
        LET d        == decisions[t]
            net_load == inputs.load[t] - inputs.solar[t]
            surplus  == -net_load
        IN  IF HourOfDay(t) \in {7, 8, 9, 17, 18, 19, 20}
              THEN /\ net_load > 0 =>
                        /\ d.bat_discharge = Min3(net_load, prev.soc, prev.max_discharge)
                        /\ d.grid_buy = net_load - d.bat_discharge
                   /\ net_load <= 0 =>
                        /\ d.grid_sell = surplus
                        /\ d.bat_charge = 0
              ELSE /\ net_load > 0 =>
                        /\ d.grid_buy = net_load
                        /\ d.bat_discharge = 0
                   /\ net_load <= 0 =>
                        /\ d.bat_charge = Min3(surplus, prev.capacity - prev.soc,
                                               prev.max_charge)
                        /\ d.grid_sell = surplus - d.bat_charge

----------------------------------------------------------------------------
(* Properties of compare_strategies, checked under CompareSpec             *)

\* a Battery constructed from the configuration of the comparison
FreshBattery ==
    LET c == inputs.battery_config
    IN  BatteryInit(c.capacity, c.initial_soc, c.max_charge, c.max_discharge,
                    c.efficiency, Real(5, 100000), Real(25, 1))

RECURSIVE AloneAfter(_, _)
\* a stepwise strategy run alone on a fresh Battery: <<battery, rows>> after i hours
AloneAfter(name, i) ==
    IF i = 0 THEN <<FreshBattery, <<>> >>
    ELSE LET before == AloneAfter(name, i - 1)
             b      == before[1]
             d      == CHOOSE x \in strategy_func(name, inputs.load[i], inputs.solar[i],
                                                  b, inputs.prices[i], inputs.sell_price) :
                          TRUE
             r      == IF d.bat_charge > 0 THEN <<charge(b, d.bat_charge), "c">>
                       ELSE IF d.bat_discharge > 0
                         THEN <<discharge(b, d.bat_discharge), "d">>
                       ELSE << <<b, 0>>, "-">>
         IN  <<r[1][1],
               Append(before[2],
                 [grid_buy      |-> d.grid_buy,
                  grid_sell     |-> d.grid_sell,
                  bat_charge    |-> IF r[2] = "c" THEN r[1][2] ELSE 0,
                  bat_discharge |-> IF r[2] = "d" THEN r[1][2] ELSE 0,
                  battery_soc   |-> r[1][1].soc,
                  cost          |-> Mul(d.grid_buy, inputs.prices[i])
                                      - Mul(d.grid_sell, inputs.sell_price),
                  solar         |-> inputs.solar[i],
                  load          |-> inputs.load[i],
                  net_load      |-> inputs.load[i] - inputs.solar[i],
                  price         |-> inputs.prices[i]])>>

\* a global strategy run alone on a fresh Battery: the rows of its plan
AlonePlanned(name) ==
    LET plan == CHOOSE x \in global_strategy_func(name, inputs.load, inputs.solar,
                               FreshBattery, inputs.prices, inputs.sell_price) : TRUE
    IN  [i \in 1..Len(inputs.solar) |->
           [grid_buy      |-> plan.grid_buy[i],
            grid_sell     |-> plan.grid_sell[i],
            bat_charge    |-> plan.bat_charge[i],
            bat_discharge |-> plan.bat_discharge[i],
            battery_soc   |-> plan.battery_soc[i],
            cost          |-> plan.cost[i],
            solar         |-> inputs.solar[i],
            load          |-> inputs.load[i],
            net_load      |-> inputs.load[i] - inputs.solar[i],
            price         |-> inputs.prices[i]]]

\* the ledger of the strategy run alone, cumulative columns included
AloneLedger(name) ==
    LET rows == IF name \in {"linear_optimizer", "mpc"} THEN AlonePlanned(name)
                ELSE AloneAfter(name, Len(inputs.solar))[2]
        col(k) == [i \in 1..Len(rows) |-> rows[i][k]]
    IN  [i \in 1..Len(rows) |->
           [k \in DOMAIN rows[i] \cup {"cumulative_cost", "cumulative_import",
                                       "cumulative_export"} |->
              CASE k = "cumulative_cost"   -> SumTo(col("cost"), i)
                [] k = "cumulative_import" -> SumTo(col("grid_buy"), i)
                [] k = "cumulative_export" -> SumTo(col("grid_sell"), i)
                [] OTHER                   -> rows[i][k]]]

\* C14: compare_strategies runs every strategy on a Battery of its own, freshly
\* constructed, so the ledger stored for a strategy is the ledger of that strategy
\* run alone, whatever strategies ran before it; the mode is global for the names
\* linear_optimizer and mpc and stepwise for every other name.
C14_ComparisonIsolated ==
    /\ pc \in {"compare", "compared"} =>
          \A name \in DOMAIN compared : compared[name] = AloneLedger(name)
    /\ pc \in {"run", "done"} =>
          /\ initial = FreshBattery
          /\ inputs.mode = "global" <=> inputs.strategy \in {"linear_optimizer", "mpc"}
          /\ inputs.mode = "step" <=> inputs.strategy \notin {"linear_optimizer", "mpc"}
    /\ pc = "compared" => DOMAIN compared = {inputs.strategies[i] :
                                                i \in 1..Len(inputs.strategies)}

\* a comparison returned in which the second strategy ran after one that had
\* charged its battery, and itself found its battery empty
C14_Witness ==
    /\ pc = "compared"
    /\ Len(inputs.strategies) = 2
    /\ inputs.battery_config.initial_soc = 0
    /\ compared[inputs.strategies[1]][1].battery_soc > 0
    /\ compared[inputs.strategies[2]][1].bat_discharge = 0
    /\ compared[inputs.strategies[2]][1].load > compared[inputs.strategies[2]][1].solar
    /\ inputs.strategies[2] = "self_consumption"

\* the sum of the cost column of a ledger
TotalCost(ledger) == SumTo([i \in 1..Len(ledger) |-> ledger[i].cost], Len(ledger))

\* C16: on the same profiles, prices and battery configuration, the total cost of
\* linear_optimizer run in global mode is at most the total cost of each of naive,
\* self_consumption, peak_shaving, time_of_use and greedy run in stepwise mode.
C16_LPDominates ==
    "linear_optimizer" \in DOMAIN compared =>
        \A name \in DOMAIN compared \cap RegistryStepStrategies :
           TotalCost(compared["linear_optimizer"]) <= TotalCost(compared[name])

----------------------------------------------------------------------------
(* Properties of the rule-based schedulers                                 *)

\* C21: self_consumption.  With a surplus s = solar - load >= 0:
\* bat_charge = min(s, capacity - soc, max_charge), grid_sell = s - bat_charge,
\* grid_buy = bat_discharge = 0 (load 2, solar 5, soc 0, capacity 10, max_charge 5
\* give bat_charge 3 and grid_sell 0).  With a deficit d > 0:
\* bat_discharge = min(d, soc, max_discharge), grid_buy = d - bat_discharge,
\* grid_sell = bat_charge = 0.
C21_SelfConsumption ==
    Decided("self_consumption") =>
        LET s == inputs.solar[1] - inputs.load[1]
            d == decisions[1]
        IN  /\ s >= 0 =>
                  /\ d.bat_charge = Min3(s, battery.capacity - battery.soc,
                                         battery.max_charge)
                  /\ d.grid_sell = s - d.bat_charge
                  /\ d.grid_buy = 0
                  /\ d.bat_discharge = 0
            /\ s < 0 =>
                  /\ d.bat_discharge = Min3(-s, battery.soc, battery.max_discharge)
                  /\ d.grid_buy = -s - d.bat_discharge
                  /\ d.grid_sell = 0
                  /\ d.bat_charge = 0
            /\ ( /\ inputs.load[1] = 2 * Scale
                 /\ inputs.solar[1] = 5 * Scale
                 /\ battery.soc = 0
                 /\ battery.capacity = 10 * Scale
                 /\ battery.max_charge = 5 * Scale ) =>
                  (d.bat_charge = 3 * Scale /\ d.grid_sell = 0)

\* the example of the claim: load 2, solar 5 and an empty battery of 10 kWh
C21_Witness ==
    /\ Decided("self_consumption")
    /\ inputs.load[1] = 2 * Scale
    /\ inputs.solar[1] = 5 * Scale
    /\ battery.soc = 0
    /\ battery.capacity = 10 * Scale
    /\ battery.max_charge = 5 * Scale
    /\ decisions[1].bat_charge = 3 * Scale

\* C22: peak_shaving with the default threshold 5.  The discharge request is
\* nonzero only when net_load > 5 and then is min(net_load - 5, soc, max_discharge),
\* so grid_buy = net_load - bat_discharge is at least 5 in an hour where the battery
\* discharges; for 0 < net_load <= 5 the deficit is imported whole with no battery
\* use; a surplus charges the battery first, min(surplus, capacity - soc,
\* max_charge), and the rest is exported.
C22_PeakShaving ==
    Decided("peak_shaving") =>
        LET net_load == inputs.load[1] - inputs.solar[1]
            surplus  == -net_load
            d        == decisions[1]
        IN  /\ d.bat_discharge # 0 => net_load > 5 * Scale
            /\ net_load > 5 * Scale =>
                  /\ d.bat_discharge = Min3(net_load - 5 * Scale, battery.soc,
                                            battery.max_discharge)
                  /\ d.grid_buy = net_load - d.bat_discharge
                  /\ d.grid_sell = 0
                  /\ d.bat_charge = 0
            /\ d.bat_discharge > 0 => d.grid_buy >= 5 * Scale
            /\ (0 < net_load /\ net_load <= 5 * Scale) =>
                  d = Decision(net_load, 0, 0, 0)
            /\ net_load <= 0 =>
                  /\ d.bat_charge = Min3(surplus, battery.capacity - battery.soc,
                                         battery.max_charge)
                  /\ d.grid_sell = surplus - d.bat_charge
                  /\ d.grid_buy = 0
                  /\ d.bat_discharge = 0

\* a net load of 8 shaved to exactly 5 by a battery that holds more than 3
C22_Witness ==
    /\ Decided("peak_shaving")
    /\ inputs.load[1] - inputs.solar[1] = 8 * Scale
    /\ battery.soc > 3 * Scale
    /\ decisions[1].bat_discharge = 3 * Scale
    /\ decisions[1].grid_buy = 5 * Scale

\* C23: naive never uses the battery.  Every decision has bat_charge =
\* bat_discharge = 0, grid_buy = max(load - solar, 0) and grid_sell =
\* max(solar - load, 0), and over a whole stepwise run of naive the battery's soc,
\* throughput and event counters stay at their initial values.
C23_NaiveLeavesBattery ==
    (InRun /\ inputs.strategy = "naive") =>
        /\ \A i \in 1..Len(decisions) :
              /\ decisions[i].bat_charge = 0
              /\ decisions[i].bat_discharge = 0
              /\ decisions[i].grid_buy = Max2(inputs.load[i] - inputs.solar[i], 0)
              /\ decisions[i].grid_sell = Max2(inputs.solar[i] - inputs.load[i], 0)
        /\ \A i \in 1..Len(results) :
              results[i].bat_charge = 0 /\ results[i].bat_discharge = 0
        /\ calls = <<>>
        /\ battery.soc = initial.soc
        /\ battery.total_throughput = initial.total_throughput
        /\ battery.charge_events = initial.charge_events
        /\ battery.discharge_events = initial.discharge_events

\* a finished naive run with an hour of deficit (load 8, solar 5: grid_buy 3) and
\* an hour of surplus over a battery that holds energy and has room
C23_Witness ==
    /\ pc = "done"
    /\ inputs.mode = "step"
    /\ inputs.strategy = "naive"
    /\ Len(results) = Hours
    /\ initial.soc > 0
    /\ \E i \in 1..Hours :
          /\ inputs.load[i] = 8 * Scale
          /\ inputs.solar[i] = 5 * Scale
          /\ results[i].grid_buy = 3 * Scale
          /\ results[i].grid_sell = 0
    /\ \E i \in 1..Hours : results[i].grid_sell = 5 * Scale
    /\ battery = initial

\* C24: every decision returned by one of the five stepwise strategies, in every
\* battery state reached during a stepwise run with non-negative solar, load and
\* prices, has grid_buy, grid_sell, bat_charge and bat_discharge >= 0 and at most
\* one of bat_charge and bat_discharge nonzero.
C24_DecisionsNonNegative ==
    (InRun /\ inputs.strategy \in RegistryStepStrategies) =>
        \A i \in 1..Len(decisions) :
           /\ decisions[i].grid_buy >= 0
           /\ decisions[i].grid_sell >= 0
           /\ decisions[i].bat_charge >= 0
           /\ decisions[i].bat_discharge >= 0
           /\ decisions[i].bat_charge = 0 \/ decisions[i].bat_discharge = 0

\* C29: in a stepwise run started from a battery with 0 <= soc <= capacity and
\* efficiency <= 1, naive, self_consumption, peak_shaving and time_of_use never
\* request more than the battery delivers: at every hour the bat_charge and
\* bat_discharge of the ledger are the amounts the strategy requested.
C29_RequestIsDelivered ==
    ( /\ InRun
      /\ inputs.strategy \in {"naive", "self_consumption", "peak_shaving",
                               "time_of_use"}
      /\ 0 <= initial.soc
      /\ initial.soc <= initial.capacity
      /\ initial.efficiency <= Scale ) =>
        \A i \in 1..Len(results) :
           /\ results[i].bat_charge = decisions[i].bat_charge
           /\ results[i].bat_discharge = decisions[i].bat_discharge

\* C30: ledger and battery stay consistent over a stepwise run of H hours: the
\* ledger has exactly H rows in hour order, row t echoing solar[t], load[t] and
\* price[t]; the throughput the battery gained during the run is the sum over all
\* rows of bat_charge + bat_discharge; and charge_event_count +
\* discharge_event_count increases by at most H.
C30_LedgerMatchesBattery ==
    (pc = "done" /\ inputs.mode = "step") =>
        LET H == Len(inputs.solar)
        IN  /\ Len(results) = H
            /\ \A i \in 1..H :
                  /\ results[i].solar = inputs.solar[i]
                  /\ results[i].load = inputs.load[i]
                  /\ results[i].price = inputs.prices[i]
            /\ battery.total_throughput - initial.total_throughput
                  = SumTo([i \in 1..H |-> results[i].bat_charge
                                            + results[i].bat_discharge], H)
            /\ (battery.charge_events + battery.discharge_events)
                  - (initial.charge_events + initial.discharge_events) <= H

\* a finished run of Hours hours with different inputs in different hours, a
\* battery operation in every hour, and a battery that returned less than asked
C30_Witness ==
    /\ pc = "done"
    /\ inputs.mode = "step"
    /\ Len(results) = Hours
    /\ inputs.load[1] # inputs.load[Hours]
    /\ inputs.prices[1] # inputs.prices[Hours]
    /\ battery.charge_events + battery.discharge_events = Hours
    /\ battery.charge_events > 0
    /\ battery.discharge_events > 0
    /\ \E i \in 1..Len(calls) : calls[i].ret < calls[i].energy
    /\ battery.total_throughput > 0

----------------------------------------------------------------------------
(* Properties of the Battery's derived quantities and counters             *)

\* the temperature factor as the claim C25 tabulates it
TableFactor(dT) ==
    IF dT < 10 * Scale THEN Real(1, 1)
    ELSE IF dT < 20 * Scale THEN Real(98, 100)
    ELSE IF dT < 30 * Scale THEN Real(95, 100)
    ELSE Real(90, 100)

\* C25: at every observation point of a Battery (after construction and after
\* each charge or discharge), efficiency = base_efficiency x temperature_factor x
\* state_of_health / 100, the factor for dT = |temperature - 25| being 1.0 below
\* 10, 0.98 below 20, 0.95 below 30 and 0.90 from 30 on.
C25_EfficiencyFormula ==
    pc = "battery" =>
        battery.efficiency =
            Mul(Mul(battery.base_efficiency,
                    TableFactor(Abs(battery.temperature - 25 * Scale))),
                Div(battery.state_of_health, 100 * Scale))

\* cycles x (0.2 / 3000) x rated capacity, the ratio applied last
CycleTerm(cycles, rated) ==
    LET x == Mul(cycles, rated) * 2
    IN  IF x < 0 THEN -((-x) \div 30000) ELSE x \div 30000

C27_ThroughputMonotone ==
    (pc = "battery" /\ \A i \in 1..Len(calls) : calls[i].energy >= 0) =>
        /\ battery.total_throughput
              = SumTo([i \in 1..Len(calls) |-> calls[i].ret], Len(calls))
        /\ battery.total_throughput >= prev.total_throughput

\* C28: charge_events grows by exactly 1 on every charge(e) with e > 0, even when
\* the accepted amount is 0, and is unchanged by charge(0) and by every discharge;
\* discharge_events behaves the same way for discharge.
C28_EventCounters ==
    (pc = "battery" /\ calls # <<>>) =>
        /\ (LastCall.op = "charge" /\ LastCall.energy > 0) =>
              battery.charge_events = prev.charge_events + 1
        /\ (LastCall.op = "charge" /\ LastCall.energy = 0) =>
              battery.charge_events = prev.charge_events
        /\ LastCall.op = "discharge" =>
              battery.charge_events = prev.charge_events
        /\ (LastCall.op = "discharge" /\ LastCall.energy > 0) =>
              battery.discharge_events = prev.discharge_events + 1
        /\ (LastCall.op = "discharge" /\ LastCall.energy = 0) =>
              battery.discharge_events = prev.discharge_events
        /\ LastCall.op = "charge" =>
              battery.discharge_events = prev.discharge_events

\* a positive charge request on a full battery: nothing accepted, event counted
C28_Witness ==
    /\ Called("charge")
    /\ LastCall.energy > 0
    /\ prev.soc = prev.capacity
    /\ LastCall.ret = 0
    /\ battery.charge_events = prev.charge_events + 1

====
